---- MODULE Spec2Model ----
(***************************************************************************)
(* A model of the textparse packrat parser (src/src/parse.rs), its basic   *)
(* components (src/src/components.rs), the tuple/derived sequences and     *)
(* derived alternatives (src/textparse_derive/src/lib.rs) and the span     *)
(* model (src/src/span.rs).                                                *)
(*                                                                         *)
(* The recursive descent of Parser::parse is modelled with an explicit     *)
(* call stack: one frame per Parse::parse body that is running, one        *)
(* action step per call of Parser::parse made by the running body.         *)
(* Texts are ASCII, so byte offsets and character offsets coincide.        *)
(***************************************************************************)
EXTENDS Integers, Sequences, FiniteSets, TLC

\* Longest text over {a, b} the parser is constructed with.
MaxLen == 2
\* Number of Parser::parse / peek / parse_without_memo calls the client makes.
MaxCalls == 2

VARIABLES
    roots,      \* the component types the client program parses with
    text,       \* Parser::text, a sequence of characters
    position,   \* Parser::position, the cursor
    level,      \* Parser::level, the name-depth
    expected,   \* Parser::expected: [position, level, items]
    memo,       \* Parser::memo: component -> position -> entry
    stack,      \* the Parse::parse bodies in progress, innermost last
    ret,        \* the result handed back by the call that returned last
    calls,      \* how many client calls were made
    invoked,    \* history: component -> position -> times line 311/337 ran
    hist,       \* history: outcomes of the client's finished parse calls
    peeked,     \* history: outcomes of the client's finished peek calls
    ev          \* history: what the last step did

vars == <<roots, text, position, level, expected, memo, stack, ret, calls, invoked, hist,
          peeked, ev>>

(***************************************************************************)
(* The grammar: component types (TypeId) and how each is built.            *)
(***************************************************************************)

Leaves == {"Empty", "AnyChar", "Char_a", "Char_b", "Char_b_unnamed", "Char_x", "Eos",
           "Str_if", "Str_ifdef"}

Components == Leaves \cup
    {"Either<Str_if,Str_ifdef>", "(AnyChar,Char_a,Char_b)",
     "Either<Char_a,Empty>", "Maybe<Char_a>",
     "While<Char_a>", "While<Empty>", "While<Pair>", "NonEmpty<While<Char_a>>",
     "NonEmpty<Char_a>",
     "Not<Char_a>", "(Not<Char_a>,AnyChar)", "Not<Char_x>", "(Not<Char_x>,AnyChar)",
     "NonEmptyItems", "Either<NonEmptyItems,Empty>", "Maybe<NonEmptyItems>", "Items",
     "Value", "Pair",
     "Expr", "Box<AddExpr>", "AddExpr",
     "List", "Box<Snoc>", "Snoc"}

\* kind: which Parse::parse body the component has; args: its type arguments
\* (the fields of a tuple / derived struct, the variants of a derived enum);
\* name: the string #[parse(name = ..)] or fn name() yields, "" for None.
Declared(T) ==
    CASE T = "Empty"          -> [kind |-> "Empty",   args |-> <<>>, name |-> ""]
      [] T = "AnyChar"        -> [kind |-> "AnyChar", args |-> <<>>, name |-> ""]
      [] T = "Char_a"         -> [kind |-> "Char",    args |-> <<"a">>, name |-> "'a'"]
      [] T = "Char_b"         -> [kind |-> "Char",    args |-> <<"b">>, name |-> "'b'"]
      [] T = "Char_b_unnamed" -> [kind |-> "Char",    args |-> <<"b">>, name |-> ""]
      [] T = "Char_x"         -> [kind |-> "Char",    args |-> <<"x">>, name |-> "'x'"]
      [] T = "Eos"            -> [kind |-> "Eos",     args |-> <<>>, name |-> "EOS"]
      [] T = "Str_if"         -> [kind |-> "Str",     args |-> <<"i", "f">>, name |-> "if"]
      [] T = "Str_ifdef"      -> [kind |-> "Str",     args |-> <<"i", "f", "d", "e", "f">>,
                                  name |-> "ifdef"]
      [] T = "Either<Str_if,Str_ifdef>" ->
            [kind |-> "Alt", args |-> <<"Str_if", "Str_ifdef">>, name |-> ""]
      [] T = "(AnyChar,Char_a,Char_b)" ->
            [kind |-> "Seq", args |-> <<"AnyChar", "Char_a", "Char_b">>, name |-> ""]
      [] T = "Either<Char_a,Empty>" ->
            [kind |-> "Alt", args |-> <<"Char_a", "Empty">>, name |-> ""]
      [] T = "Maybe<Char_a>" ->
            [kind |-> "Maybe", args |-> <<"Either<Char_a,Empty>">>, name |-> ""]
      [] T = "While<Char_a>" ->
            [kind |-> "While", args |-> <<"Char_a">>, name |-> ""]
      [] T = "While<Empty>" ->
            [kind |-> "While", args |-> <<"Empty">>, name |-> ""]
      [] T = "While<Pair>" ->
            [kind |-> "While", args |-> <<"Pair">>, name |-> ""]
      [] T = "NonEmpty<While<Char_a>>" ->
            [kind |-> "NonEmpty", args |-> <<"While<Char_a>">>, name |-> ""]
      [] T = "NonEmpty<Char_a>" ->
            [kind |-> "NonEmpty", args |-> <<"Char_a">>, name |-> ""]
      [] T = "Not<Char_a>" ->
            [kind |-> "Not", args |-> <<"Char_a">>, name |-> "not 'a'"]
      [] T = "(Not<Char_a>,AnyChar)" ->
            [kind |-> "Seq", args |-> <<"Not<Char_a>", "AnyChar">>, name |-> ""]
      [] T = "Not<Char_x>" ->
            [kind |-> "Not", args |-> <<"Char_x">>, name |-> "not 'x'"]
      [] T = "(Not<Char_x>,AnyChar)" ->
            [kind |-> "Seq", args |-> <<"Not<Char_x>", "AnyChar">>, name |-> ""]
      [] T = "NonEmptyItems" ->
            [kind |-> "NonEmptyItems", args |-> <<"Char_a", "Char_b_unnamed">>, name |-> ""]
      [] T = "Either<NonEmptyItems,Empty>" ->
            [kind |-> "Alt", args |-> <<"NonEmptyItems", "Empty">>, name |-> ""]
      [] T = "Maybe<NonEmptyItems>" ->
            [kind |-> "Maybe", args |-> <<"Either<NonEmptyItems,Empty>">>, name |-> ""]
      [] T = "Items" ->
            [kind |-> "Seq", args |-> <<"Maybe<NonEmptyItems>">>, name |-> ""]
      [] T = "Value" ->
            [kind |-> "Alt", args |-> <<"Char_a", "Pair", "Eos">>, name |-> "a value"]
      [] T = "Pair" ->
            [kind |-> "Seq", args |-> <<"Char_b", "Char_a">>, name |-> "a pair"]
      [] T = "Expr" ->
            [kind |-> "Alt", args |-> <<"Box<AddExpr>", "Char_a">>, name |-> ""]
      [] T = "Box<AddExpr>" ->
            [kind |-> "Box", args |-> <<"AddExpr">>, name |-> ""]
      [] T = "AddExpr" ->
            [kind |-> "Seq", args |-> <<"Expr", "Char_b", "Expr">>, name |-> ""]
      [] T = "List" ->
            [kind |-> "Alt", args |-> <<"Box<Snoc>", "Char_a">>, name |-> ""]
      [] T = "Box<Snoc>" ->
            [kind |-> "Box", args |-> <<"Snoc">>, name |-> ""]
      [] T = "Snoc" ->
            [kind |-> "Seq", args |-> <<"List", "Char_b">>, name |-> ""]

Grammar == [T \in Components |-> Declared(T)]

\* Box<T>::parse runs T::parse itself, without going through Parser::parse.
ImplOf ==
    [T \in Components |-> IF Grammar[T].kind = "Box" THEN Grammar[T].args[1] ELSE T]

Impl(T) == ImplOf[T]

\* the kind and the type arguments of the Parse::parse body that runs for T
KindOf(T) == Grammar[ImplOf[T]].kind

ArgsOf(T) == Grammar[ImplOf[T]].args

\* Parse::name(): Box<T> forwards to T::name().
name(T) == Grammar[ImplOf[T]].name

HasName(T) == name(T) # ""

(***************************************************************************)
(* Values and results.  A parsed value is known by its span and by which   *)
(* variant / how many items it holds; ParseResult is Ok(value) or          *)
(* Err(ParseError).                                                        *)
(***************************************************************************)

Err == [ok |-> FALSE, start |-> 0, end |-> 0, tag |-> 0]

Ok(s, e, t) == [ok |-> TRUE, start |-> s, end |-> e, tag |-> t]

\* Span::is_empty
is_empty(v) == v.start >= v.end

Min(a, b) == IF a <= b THEN a ELSE b

(***************************************************************************)
(* Parser: cursor operations.                                              *)
(***************************************************************************)

\* Parser::is_eos at cursor pos
is_eos(pos) == Len(text) = pos

\* Parser::is_eos of src/src/lib.rs at cursor pos: !(text.len() < current)
lib_is_eos(pos) == ~(Len(text) < pos)

\* Parser::peek_char at cursor pos: "" stands for None
peek_char(pos) == IF pos < Len(text) THEN text[pos + 1] ELSE ""

\* Parser::consume_bytes(n) at cursor pos: the cursor afterwards
consume_bytes(pos, n) == Min(Len(text), pos + n)

\* Parser::remaining_text at cursor pos, &self.text[pos..], panics past the end
remaining_text_panics(pos) == pos > Len(text)

\* Parser::consume_chars(n) at cursor pos: the cursor afterwards; the text is
\* ASCII, so the n first characters of the remaining text are n bytes at most
consume_chars(pos, n) == consume_bytes(pos, Min(n, Len(text) - pos))

\* Parser::read_char at cursor pos: the character read and the cursor afterwards
read_char(pos) ==
    IF peek_char(pos) # ""
    THEN [c |-> peek_char(pos), pos |-> consume_bytes(pos, 1)]
    ELSE [c |-> "", pos |-> pos]

(***************************************************************************)
(* Lines and columns.                                                      *)
(***************************************************************************)

NL == "\n"

\* for c in text[..offset].chars(): the loop shared by both line_and_column,
\* from the i-th character on
RECURSIVE ScanLines(_, _, _, _, _)
ScanLines(txt, i, offset, line, column) ==
    IF i > offset THEN <<line, column>>
    ELSE IF txt[i] = NL THEN ScanLines(txt, i + 1, offset, line + 1, 1)
         ELSE ScanLines(txt, i + 1, offset, line, column + 1)

\* ErrorMessageBuilder::line_and_column: let mut line = 1; let mut column = 1
line_and_column(txt, offset) == ScanLines(txt, 1, offset, 1, 1)

\* Position::line_and_column of src/src/span.rs: let mut line = 0; let mut column = 1
Position_line_and_column(txt, offset) == ScanLines(txt, 1, offset, 0, 1)

\* str::lines().next(): None for the empty string, else the characters before
\* the first newline
RECURSIVE FirstLine(_)
FirstLine(s) ==
    IF s = <<>> \/ s[1] = NL THEN <<>> ELSE <<s[1]>> \o FirstLine(Tail(s))

lines_next(s) == [some |-> s # <<>>, line |-> FirstLine(s)]

\* ErrorMessageBuilder::try_build on the text txt and the expected record e:
\* what goes into the message, and whether a slice or an expect() panics
try_build(txt, e) ==
    LET offset == e.position
        lc     == line_and_column(txt, Min(offset, Len(txt)))
        from   == offset + 1 - lc[2]
        first  == lines_next(SubSeq(txt, from + 1, Len(txt)))
    IN  [panics |-> offset > Len(txt) \/ ~first.some,
         line |-> lc[1], column |-> lc[2], source |-> first.line,
         eos |-> offset = Len(txt)]

(***************************************************************************)
(* Parse::parse of the leaf components: the result and the cursor the body *)
(* leaves behind (Parser::parse rewinds it when the result is Err).        *)
(***************************************************************************)

\* mutant: Empty does not parse
EmptyParse_Failing(pos) == [res |-> Err, pos |-> pos]

\* Empty::parse
EmptyParse(pos) == [res |-> Ok(pos, pos, 0), pos |-> pos]

AnyCharParse(pos) ==
    LET r == read_char(pos)
    IN  IF r.c = "" THEN [res |-> Err, pos |-> r.pos]
        ELSE [res |-> Ok(pos, r.pos, 0), pos |-> r.pos]

CharParse(c, pos) ==
    LET r == read_char(pos)
    IN  IF r.c # "" /\ r.c = c THEN [res |-> Ok(pos, r.pos, 0), pos |-> r.pos]
        ELSE [res |-> Err, pos |-> r.pos]

EosParse(pos) ==
    IF is_eos(pos) THEN [res |-> Ok(pos, pos, 0), pos |-> pos]
    ELSE [res |-> Err, pos |-> pos]

\* the loop of Str::parse over the characters cs, from its i-th character on
RECURSIVE StrLoop(_, _, _, _)
StrLoop(cs, i, start, pos) ==
    IF i > Len(cs) THEN [res |-> Ok(start, pos, 0), pos |-> pos]
    ELSE LET r == read_char(pos)
         IN  IF r.c # cs[i] THEN [res |-> Err, pos |-> r.pos]
             ELSE StrLoop(cs, i + 1, start, r.pos)

StrParse(cs, pos) == StrLoop(cs, 1, pos, pos)

LeafParse(T, pos) ==
    CASE KindOf(T) = "Empty"   -> EmptyParse(pos)
      [] KindOf(T) = "AnyChar" -> AnyCharParse(pos)
      [] KindOf(T) = "Char"    -> CharParse(ArgsOf(T)[1], pos)
      [] KindOf(T) = "Eos"     -> EosParse(pos)
      [] KindOf(T) = "Str"     -> StrParse(ArgsOf(T), pos)

IsLeaf(T) == Impl(T) \in Leaves

\* the leaf reads the text (peek_char, hence remaining_text) past its end
LeafPanics(T, pos) ==
    KindOf(T) \in {"AnyChar", "Char", "Str"} /\ remaining_text_panics(pos)

(***************************************************************************)
(* Parser: the memo.  memo[T] is the BTreeMap of component T: a function   *)
(* from the positions that have an entry to Ok(value) / Err.               *)
(***************************************************************************)

EmptyMap == [p \in {} |-> Err]

\* mutant: the memo is never found to hold an entry
has_parse_result_Never(m, T, pos) == FALSE

\* Parser::get_parse_result: is there an entry, and which
has_parse_result(m, T, pos) == pos \in DOMAIN m[T]

get_parse_result(m, T, pos) == m[T][pos]

\* mutant: an entry that exists is kept
set_parse_result_KeepingEntry(m, T, pos, r) ==
    IF pos \in DOMAIN m[T] THEN m
    ELSE [m EXCEPT ![T] = [q \in (DOMAIN m[T]) \cup {pos} |-> IF q = pos THEN r ELSE m[T][q]]]

\* Parser::set_parse_result: insert, overwriting
set_parse_result(m, T, pos, r) ==
    [m EXCEPT ![T] = [q \in (DOMAIN m[T]) \cup {pos} |-> IF q = pos THEN r ELSE m[T][q]]]

\* mutant: the in-progress entry is not written
set_parse_result_if_absent_Skipped(m, T, pos, r) == m

\* Parser::set_parse_result_if_absent: entry(position).or_insert_with(..)
set_parse_result_if_absent(m, T, pos, r) ==
    IF pos \in DOMAIN m[T] THEN m ELSE set_parse_result(m, T, pos, r)

\* the iteration of a BTreeMap: its keys in ascending order
RECURSIVE BTreeIter(_)
BTreeIter(keys) ==
    IF keys = {} THEN <<>>
    ELSE LET k == CHOOSE x \in keys : \A y \in keys : x <= y
         IN  <<k>> \o BTreeIter(keys \ {k})

\* mutant: the failures are not filtered out
parsed_items_Unfiltered(m, T) ==
    LET ks == BTreeIter(DOMAIN m[T])
    IN  [i \in 1..Len(ks) |-> [position |-> ks[i], item |-> m[T][ks[i]]]]

\* Parser::parsed_items::<T>: the map of T is iterated, the Ok entries are kept
parsed_items(m, T) ==
    LET ks == SelectSeq(BTreeIter(DOMAIN m[T]), LAMBDA p : m[T][p].ok)
    IN  [i \in 1..Len(ks) |-> [position |-> ks[i], item |-> m[T][ks[i]]]]

(***************************************************************************)
(* Expected tracker.  items lists the keys of expected_items (a HashMap    *)
(* keyed by TypeId) in the order they were first inserted.                 *)
(***************************************************************************)

SeqRange(s) == {s[i] : i \in 1..Len(s)}

\* mutant: an entry is added even when the key is present
add_item_Duplicating(items, T) == Append(items, T)

\* Expected::add_item: HashMap::insert, an existing key keeps its single entry
add_item(items, T) == IF T \in SeqRange(items) THEN items ELSE Append(items, T)

\* Expected::new
Expected_new(T, pos, lvl) == [position |-> pos, level |-> lvl, items |-> add_item(<<>>, T)]

\* Ord::cmp
cmp(x, y) == IF x < y THEN "Less" ELSE IF x = y THEN "Equal" ELSE "Greater"

\* mutant: the last arm of the match replaces instead of ignoring
update_branch_NeverIgnoring(e, pos, lvl) ==
    IF e.position = pos /\ e.level = lvl THEN "append" ELSE "replace"

\* which arm of the match in Parser::update_expected is taken
update_branch(e, pos, lvl) ==
    LET c == <<cmp(e.position, pos), cmp(e.level, lvl)>>
    IN  IF c = <<"Equal", "Equal">> THEN "append"
        ELSE IF c[1] = "Less" \/ c = <<"Equal", "Less">> THEN "replace"
        ELSE "ignore"

\* mutant: the replace arm keeps the items recorded so far
update_expected_KeepingItems(e, T, pos, lvl) ==
    CASE update_branch(e, pos, lvl) = "append"  -> [e EXCEPT !.items = add_item(e.items, T)]
      [] update_branch(e, pos, lvl) = "replace" ->
            [position |-> pos, level |-> lvl, items |-> add_item(e.items, T)]
      [] OTHER -> e

\* Parser::update_expected::<T> with the cursor at pos and the name-depth lvl
update_expected(e, T, pos, lvl) ==
    CASE update_branch(e, pos, lvl) = "append"  -> [e EXCEPT !.items = add_item(e.items, T)]
      [] update_branch(e, pos, lvl) = "replace" -> Expected_new(T, pos, lvl)
      [] OTHER -> e

(***************************************************************************)
(* Parse::parse of the composite components.  A frame is one running body: *)
(* T and start are the component and the `start` of the Parser::parse that *)
(* invoked it (fn: parse or parse_without_memo), pc counts the calls of     *)
(* Parser::parse the body has made, at is the cursor at the latest of      *)
(* them, sp the body's own start_position, log the calls that returned:    *)
(* [T, at, res].                                                           *)
(***************************************************************************)

Frame(T, pos, fn) ==
    [T |-> T, start |-> pos, fn |-> fn, pc |-> 0, at |-> pos, sp |-> 0, log |-> <<>>]

\* the log of frame f once its latest call returned r
LogWith(f, r, child) ==
    IF f.pc = 0 THEN f.log ELSE Append(f.log, [T |-> child, at |-> f.at, res |-> r])

Call(T, pc) == [op |-> "call", T |-> T, pc |-> pc, res |-> Err]

Done(r) == [op |-> "done", T |-> "", pc |-> 0, res |-> r]

\* mutant: a failed element does not abort the sequence before its last element
SeqBody_NoAbort(cs, f, r) ==
    IF f.pc = Len(cs)
    THEN IF ~r.ok THEN Done(Err)
         ELSE LET l == LogWith(f, r, cs[f.pc])
              IN  Done(Ok(l[1].res.start, l[Len(l)].res.end, 0))
    ELSE Call(cs[f.pc + 1], f.pc + 1)

\* mutant: the span starts where the last field starts
SeqBody_LastFieldSpan(cs, f, r) ==
    IF f.pc > 0 /\ ~r.ok THEN Done(Err)
    ELSE IF f.pc = Len(cs)
         THEN LET l == LogWith(f, r, cs[f.pc])
              IN  Done(Ok(l[Len(l)].res.start, l[Len(l)].res.end, 0))
         ELSE Call(cs[f.pc + 1], f.pc + 1)

\* impl Parse for (T0, .., Tn) and the derived struct: Ok((parser.parse()?, ..)),
\* with the span of the derived/tuple Span: first field's start, last field's end
SeqBody(cs, f, r) ==
    IF f.pc > 0 /\ ~r.ok THEN Done(Err)
    ELSE IF f.pc = Len(cs)
         THEN LET l == LogWith(f, r, cs[f.pc])
              IN  Done(Ok(l[1].res.start, l[Len(l)].res.end, 0))
         ELSE Call(cs[f.pc + 1], f.pc + 1)

\* mutant: a successful variant does not return, the last variant decides
AltBody_TriesAll(cs, f, r) ==
    IF f.pc = Len(cs)
    THEN IF r.ok THEN Done(Ok(r.start, r.end, f.pc)) ELSE Done(Err)
    ELSE Call(cs[f.pc + 1], f.pc + 1)

\* the derived enum: if let Some(x) = parser.parse() { return Some(Self::V(x)) } .. None
AltBody(cs, f, r) ==
    IF f.pc > 0 /\ r.ok THEN Done(Ok(r.start, r.end, f.pc))
    ELSE IF f.pc = Len(cs) THEN Done(Err)
         ELSE Call(cs[f.pc + 1], f.pc + 1)

\* Maybe::parse: parser.parse().map(Self)
MaybeBody(cs, f, r) ==
    IF f.pc = 0 THEN Call(cs[1], 1)
    ELSE IF r.ok THEN Done(Ok(r.start, r.end, r.tag)) ELSE Done(Err)

\* mutant: the loop is left after its first round
WhileBody_OneRound(cs, f, r, pos) ==
    IF f.pc = 0 THEN Call(cs[1], 1)
    ELSE Done(Ok(f.sp, pos, 0))

\* While::parse: while parser.parse::<T>().is_some() {}; the number of rounds
\* is unbounded, pc tells odd rounds (1) from even ones (2)
WhileBody(cs, f, r, pos) ==
    IF f.pc = 0 \/ r.ok THEN Call(cs[1], IF f.pc = 1 THEN 2 ELSE 1)
    ELSE Done(Ok(f.sp, pos, 0))

\* mutant: the item is returned without looking at its span
NonEmptyBody_Unchecked(cs, f, r) ==
    IF f.pc = 0 THEN Call(cs[1], 1)
    ELSE IF ~r.ok THEN Done(Err)
         ELSE Done(Ok(r.start, r.end, 0))

\* NonEmpty::parse
NonEmptyBody(cs, f, r) ==
    IF f.pc = 0 THEN Call(cs[1], 1)
    ELSE IF ~r.ok THEN Done(Err)
         ELSE IF is_empty(r) THEN Done(Err)
              ELSE Done(Ok(r.start, r.end, 0))

\* mutant: the lookahead is not negated
NotBody_NotNegated(cs, f, r, pos) ==
    IF f.pc = 0 THEN Call(cs[1], 1)
    ELSE IF r.ok THEN Done(Ok(pos, pos, 0)) ELSE Done(Err)

\* Not::parse
NotBody(cs, f, r, pos) ==
    IF f.pc = 0 THEN Call(cs[1], 1)
    ELSE IF ~r.ok THEN Done(Ok(pos, pos, 0)) ELSE Done(Err)

\* the items vector of NonEmptyItems: the Item calls of the log that succeeded
ItemsOf(l, item) == SelectSeq(l, LAMBDA c : c.T = item /\ c.res.ok)

\* NonEmptyItems::parse; pc = 1: an Item call is out, pc = 2: a Delimiter call is out
NonEmptyItemsBody(cs, f, r) ==
    IF f.pc = 0 THEN Call(cs[1], 1)
    ELSE IF f.pc = 1
         THEN IF ~r.ok THEN Done(Err) ELSE Call(cs[2], 2)
         ELSE IF r.ok THEN Call(cs[1], 1)
              ELSE LET items == ItemsOf(f.log, cs[1])
                   IN  Done(Ok(items[1].res.start, items[Len(items)].res.end, Len(items)))

\* the component whose call is out in frame f
Callee(f) ==
    IF KindOf(f.T) \in {"Seq", "Alt", "NonEmptyItems"} THEN ArgsOf(f.T)[f.pc]
    ELSE ArgsOf(f.T)[1]

\* what the body of frame f does next, given the result r of its latest call
Body(f, r, pos) ==
    CASE KindOf(f.T) = "Seq"           -> SeqBody(ArgsOf(f.T), f, r)
      [] KindOf(f.T) = "Alt"           -> AltBody(ArgsOf(f.T), f, r)
      [] KindOf(f.T) = "Maybe"         -> MaybeBody(ArgsOf(f.T), f, r)
      [] KindOf(f.T) = "While"         -> WhileBody(ArgsOf(f.T), f, r, pos)
      [] KindOf(f.T) = "NonEmpty"      -> NonEmptyBody(ArgsOf(f.T), f, r)
      [] KindOf(f.T) = "Not"           -> NotBody(ArgsOf(f.T), f, r, pos)
      [] KindOf(f.T) = "NonEmptyItems" -> NonEmptyItemsBody(ArgsOf(f.T), f, r)

(***************************************************************************)
(* The state machine.                                                      *)
(***************************************************************************)

Letters == {"a", "b"}

\* the texts of length n over Letters
RECURSIVE TextsOfLen(_)
TextsOfLen(n) ==
    IF n = 0 THEN {<<>>}
    ELSE {Append(t, c) : t \in TextsOfLen(n - 1), c \in Letters}

\* the client programs: each parses with one or two component types
Suites ==
    {{"Expr", "AddExpr"},
     {"List", "Box<Snoc>"},
     {"Value", "Eos"},
     {"Either<Str_if,Str_ifdef>"},
     {"(AnyChar,Char_a,Char_b)"},
     {"(Not<Char_a>,AnyChar)"},
     {"(Not<Char_x>,AnyChar)"},
     {"Items"},
     {"Maybe<Char_a>"},
     {"NonEmpty<While<Char_a>>"},
     {"NonEmpty<Char_a>"},
     {"While<Empty>"},
     {"While<Pair>"}}

\* the texts a client program is run on: every text over Letters up to MaxLen,
\* "ifdef" for the program of the keywords, "bab" for the run of pairs, "x"
\* and "y" for the lookahead on 'x', texts of more than one line for the tuple
Texts(suite) ==
    UNION {TextsOfLen(n) : n \in 0..MaxLen}
        \cup (IF suite = {"Either<Str_if,Str_ifdef>"}
              THEN {<<"i", "f", "d", "e", "f">>} ELSE {})
        \cup (IF suite = {"While<Pair>"} THEN {<<"b", "a", "b">>} ELSE {})
        \cup (IF suite = {"(Not<Char_x>,AnyChar)"} THEN {<<"x">>, <<"y">>} ELSE {})
        \cup (IF suite = {"(AnyChar,Char_a,Char_b)"}
              THEN {<<NL>>, <<"a", NL>>, <<NL, "a">>, <<NL, NL>>} ELSE {})

NoExpected == [position |-> 0, level |-> 0, items |-> <<>>]

\* what a step did: kind of step, the component and the cursor at which it was
\* called, the result, the calls the body made, the arm update_expected took,
\* the expected record and the name-depth before the step, whether the client
\* made the call, whether the client had made the same parse call before
NoEvent ==
    [kind |-> "none", T |-> "", start |-> 0, res |-> Err, log |-> <<>>,
     branch |-> "none", prev |-> NoExpected, depth |-> 0, client |-> FALSE,
     again |-> FALSE, fn |-> ""]

Init ==
    /\ roots \in Suites
    /\ text \in Texts(roots)
    /\ position = 0
    /\ level = 0
    /\ expected = NoExpected
    /\ memo = [T \in Components |-> EmptyMap]
    /\ stack = <<>>
    /\ ret = Err
    /\ calls = 0
    /\ invoked = [T \in Components |-> [p \in 0..(Len(text) + 1) |-> 0]]
    /\ hist = {}
    /\ peeked = {}
    /\ ev = NoEvent

\* a finished parse call of the client: what it returned and where it left the cursor
Outcome(T, pos, r, cur) == [T |-> T, start |-> pos, res |-> r, cursor |-> cur]

Called(h, T, pos) == \E o \in h : o.T = T /\ o.start = pos

\* mutant: a memo hit leaves the cursor where it is
HitCursor_Staying(r, pos) == pos

\* Parser::parse, lines 293-295: the cursor after a memo hit
HitCursor(r, pos) == IF r.ok THEN r.end ELSE pos

\* mutant: the cursor is not put back after a failure
CursorAfter_NoRewind(start, r, cur) == cur

\* Parser::parse, lines 317-319: the cursor after T::parse returned r at cur
CursorAfter(start, r, cur) == IF r.ok THEN cur ELSE start

\* mutant: every component updates expected, named or not
EnterExpected_Unconditional(e, T, pos, lvl) == update_expected(e, T, pos, lvl)

\* Parser::parse, lines 301-306: only a component with a name updates expected
EnterExpected(e, T, pos, lvl) ==
    IF HasName(T) THEN update_expected(e, T, pos, lvl) ELSE e

\* Parser::parse, lines 308-310
EnterLevel(T, lvl) == IF HasName(T) THEN lvl + 1 ELSE lvl

\* mutant: the name-depth is decremented for every component
ReturnLevel_Unconditional(T, lvl) == lvl - 1

\* Parser::parse, lines 312-314
ReturnLevel(T, lvl) == IF HasName(T) THEN lvl - 1 ELSE lvl

\* mutant: the expected record is updated before the memo is looked at
Hit_UpdatingExpected(T, stk, byClient) ==
    LET r == get_parse_result(memo, T, position)
        cur == HitCursor(r, position)
    IN  /\ position' = cur
        /\ ret' = r
        /\ stack' = stk
        /\ expected' = EnterExpected(expected, T, position, level)
        /\ hist' = IF byClient THEN hist \cup {Outcome(T, position, r, cur)} ELSE hist
        /\ ev' = [NoEvent EXCEPT !.kind = "hit", !.T = T, !.start = position, !.res = r,
                                 !.prev = expected, !.depth = level,
                                 !.client = byClient, !.again = Called(hist, T, position),
                                 !.fn = "parse"]
        /\ UNCHANGED <<level, memo, invoked, peeked>>

\* Parser::parse, lines 291-297: the memo holds an entry for (T, cursor)
Hit(T, stk, byClient) ==
    LET r == get_parse_result(memo, T, position)
        cur == HitCursor(r, position)
    IN  /\ position' = cur
        /\ ret' = r
        /\ stack' = stk
        /\ hist' = IF byClient THEN hist \cup {Outcome(T, position, r, cur)} ELSE hist
        /\ ev' = [NoEvent EXCEPT !.kind = "hit", !.T = T, !.start = position, !.res = r,
                                 !.prev = expected, !.depth = level,
                                 !.client = byClient, !.again = Called(hist, T, position),
                                 !.fn = "parse"]
        /\ UNCHANGED <<level, expected, memo, invoked, peeked>>

\* Parser::parse, lines 299-311, and Parser::parse_without_memo, lines 325-337:
\* up to the invocation of T::parse
Enter(T, stk, byClient, fn) ==
    /\ expected' = EnterExpected(expected, T, position, level)
    /\ memo' = set_parse_result_if_absent(memo, T, position, Err)
    /\ level' = EnterLevel(T, level)
    /\ stack' = Append(stk, Frame(T, position, fn))
    /\ invoked' = [invoked EXCEPT ![T][position] = @ + 1]
    /\ ev' = [NoEvent EXCEPT !.kind = "enter", !.T = T, !.start = position,
                             !.branch = IF HasName(T)
                                        THEN update_branch(expected, position, level)
                                        ELSE "unnamed",
                             !.prev = expected, !.depth = level,
                             !.client = byClient, !.again = Called(hist, T, position),
                             !.fn = fn]
    /\ UNCHANGED <<position, ret, hist, peeked>>

\* a call of Parser::parse::<T>() with stk the stack of the caller
Dispatch(T, stk, byClient) ==
    IF has_parse_result(memo, T, position)
    THEN Hit(T, stk, byClient)
    ELSE Enter(T, stk, byClient, "parse")

\* Parser::parse, lines 312-320 (parse_without_memo, lines 338-346): T::parse
\* returned r with the cursor at cur
Return(f, r, cur, l) ==
    LET stk == SubSeq(stack, 1, Len(stack) - 1)
        byClient == stk = <<>>
        after == CursorAfter(f.start, r, cur)
    IN  /\ level' = ReturnLevel(f.T, level)
        /\ memo' = set_parse_result(memo, f.T, f.start, r)
        /\ position' = after
        /\ ret' = r
        /\ stack' = stk
        /\ hist' = IF byClient /\ f.fn = "parse"
                   THEN hist \cup {Outcome(f.T, f.start, r, after)} ELSE hist
        /\ ev' = [NoEvent EXCEPT !.kind = "return", !.T = f.T, !.start = f.start, !.res = r,
                                 !.log = l, !.prev = expected, !.depth = level,
                                 !.client = byClient,
                                 !.again = Called(hist, f.T, f.start), !.fn = f.fn]
        /\ UNCHANGED <<expected, invoked, peeked>>

\* the client calls parser.parse::<T>()
ClientParse ==
    /\ stack = <<>>
    /\ calls < MaxCalls
    /\ \E T \in roots :
        /\ calls' = calls + 1
        /\ Dispatch(T, <<>>, TRUE)
    /\ UNCHANGED <<roots, text>>

\* the client calls parser.peek::<T>(): lines 277-278, the cursor is saved and
\* parse is called
ClientPeek ==
    /\ stack = <<>>
    /\ calls < MaxCalls
    /\ \E T \in roots :
        /\ calls' = calls + 1
        /\ Dispatch(T, <<Frame(T, position, "peek")>>, FALSE)
    /\ UNCHANGED <<roots, text>>

\* mutant: parse_without_memo answers from the memo when it holds an entry
DispatchWithoutMemo_Consulting(T, stk, byClient) ==
    IF has_parse_result(memo, T, position)
    THEN /\ position' = HitCursor(get_parse_result(memo, T, position), position)
         /\ ret' = get_parse_result(memo, T, position)
         /\ stack' = stk
         /\ ev' = [NoEvent EXCEPT !.kind = "hit", !.T = T, !.start = position,
                                  !.res = get_parse_result(memo, T, position),
                                  !.prev = expected, !.depth = level,
                                  !.client = byClient, !.fn = "parse_without_memo"]
         /\ UNCHANGED <<level, expected, memo, invoked, hist, peeked>>
    ELSE Enter(T, stk, byClient, "parse_without_memo")

\* a call of Parser::parse_without_memo::<T>() with stk the stack of the caller:
\* lines 325-337, the memo is not consulted
DispatchWithoutMemo(T, stk, byClient) == Enter(T, stk, byClient, "parse_without_memo")

\* the client calls parser.parse_without_memo::<T>()
ClientParseWithoutMemo ==
    /\ stack = <<>>
    /\ calls < MaxCalls
    /\ \E T \in roots :
        /\ calls' = calls + 1
        /\ DispatchWithoutMemo(T, <<>>, TRUE)
    /\ UNCHANGED <<roots, text>>

\* the client calls parser.peek_without_memo::<T>(): lines 284-285, the cursor
\* is saved and parse_without_memo is called
ClientPeekWithoutMemo ==
    /\ stack = <<>>
    /\ calls < MaxCalls
    /\ \E T \in roots :
        /\ calls' = calls + 1
        /\ DispatchWithoutMemo(T, <<Frame(T, position, "peek_without_memo")>>, FALSE)
    /\ UNCHANGED <<roots, text>>

\* the frame stands for a peek or peek_without_memo that waits for its parse
IsPeekFrame(f) == f.fn \in {"peek", "peek_without_memo"}

\* mutant: the cursor is left where parse put it
PeekCursor_NotRestored(saved, cur) == cur

\* Parser::peek, line 279: self.position = position
PeekCursor(saved, cur) == saved

\* Parser::peek, lines 279-280: parse returned, the cursor is put back
PeekReturn ==
    /\ stack # <<>>
    /\ LET f == stack[Len(stack)]
       IN  /\ f.fn = "peek"
           /\ position' = PeekCursor(f.start, position)
           /\ peeked' = peeked \cup {Outcome(f.T, f.start, ret, PeekCursor(f.start, position))}
           /\ stack' = SubSeq(stack, 1, Len(stack) - 1)
           /\ ev' = [NoEvent EXCEPT !.kind = "peek_return", !.T = f.T, !.start = f.start,
                                    !.res = ret, !.client = TRUE, !.fn = "peek"]
    /\ UNCHANGED <<roots, text, level, expected, memo, ret, calls, invoked, hist>>

\* Parser::peek_without_memo, lines 286-287: parse_without_memo returned, the
\* cursor is put back
PeekWithoutMemoReturn ==
    /\ stack # <<>>
    /\ LET f == stack[Len(stack)]
       IN  /\ f.fn = "peek_without_memo"
           /\ position' = PeekCursor(f.start, position)
           /\ stack' = SubSeq(stack, 1, Len(stack) - 1)
           /\ ev' = [NoEvent EXCEPT !.kind = "peek_return", !.T = f.T, !.start = f.start,
                                    !.res = ret, !.client = TRUE,
                                    !.fn = "peek_without_memo"]
    /\ UNCHANGED <<roots, text, level, expected, memo, ret, calls, invoked, hist, peeked>>

\* the client calls parser.set_current_position(Position::new(q))
SetCurrentPosition ==
    /\ stack = <<>>
    /\ \E q \in 0..(Len(text) + 1) :
        /\ position' = Min(Len(text), q)
        /\ ev' = [NoEvent EXCEPT !.kind = "set_position", !.start = q, !.client = TRUE]
    /\ UNCHANGED <<roots, text, level, expected, memo, stack, ret, calls, invoked, hist,
                   peeked>>

\* the running body of a leaf component runs to its end
LeafStep ==
    /\ stack # <<>>
    /\ LET f == stack[Len(stack)]
       IN  /\ ~IsPeekFrame(f)
           /\ IsLeaf(f.T)
           /\ ~LeafPanics(f.T, position)
           /\ LET l == LeafParse(f.T, position)
              IN  Return(f, l.res, l.pos, <<>>)
    /\ UNCHANGED <<roots, text, calls>>

\* the running body of a composite component runs up to its next call of
\* Parser::parse, or to its end
BodyStep ==
    /\ stack # <<>>
    /\ LET f == stack[Len(stack)]
       IN  /\ ~IsPeekFrame(f)
           /\ ~IsLeaf(f.T)
           /\ LET d == Body(f, ret, position)
                  l == IF KindOf(f.T) = "While" THEN <<>>
                       ELSE LogWith(f, ret, Callee(f))
                  g == [f EXCEPT !.pc = d.pc, !.at = position, !.log = l,
                                 !.sp = IF f.pc = 0 THEN position ELSE f.sp]
              IN  IF d.op = "call"
                  THEN Dispatch(d.T, [stack EXCEPT ![Len(stack)] = g], FALSE)
                  ELSE Return(g, d.res, position, l)
    /\ UNCHANGED <<roots, text, calls>>

Next ==
    \/ ClientParse
    \/ ClientPeek
    \/ PeekReturn
    \/ SetCurrentPosition
    \/ LeafStep
    \/ BodyStep

Spec == Init /\ [][Next]_vars

\* the steps of the parser's own code
Run == PeekReturn \/ LeafStep \/ BodyStep

\* the client of the left-recursive grammar; the parser is synchronous code, so
\* a call that is in progress keeps running
InitLeftRecursive == Init /\ roots = {"Expr", "AddExpr"}

FairSpec == InitLeftRecursive /\ [][Next]_vars /\ WF_vars(Run)

\* the clients of the repetitions, with the same fairness
InitRepetition ==
    Init /\ roots \in {{"While<Empty>"}, {"While<Pair>"}, {"NonEmpty<While<Char_a>>"}}

FairSpecRepetition == InitRepetition /\ [][Next]_vars /\ WF_vars(Run)

\* the other public operations of the parser, which move the cursor or write
\* the memo without parsing
ClientMove(kind, n, cur) ==
    /\ stack = <<>>
    /\ position' = cur
    /\ ev' = [NoEvent EXCEPT !.kind = kind, !.start = position, !.client = TRUE,
                             !.res = Ok(position, cur, n)]
    /\ UNCHANGED <<roots, text, level, expected, memo, stack, ret, calls, invoked, hist,
                   peeked>>

\* the client calls parser.read_char()
ClientReadChar ==
    /\ ~remaining_text_panics(position)
    /\ ClientMove("read_char", 1, read_char(position).pos)

\* the client calls parser.consume_bytes(n); it returns (before, after)
ClientConsumeBytes ==
    \E n \in 0..(MaxLen + 1) : ClientMove("consume_bytes", n, consume_bytes(position, n))

\* the client calls parser.consume_chars(n); it returns (before, after)
ClientConsumeChars ==
    /\ ~remaining_text_panics(position)
    /\ \E n \in 0..(MaxLen + 1) : ClientMove("consume_chars", n, consume_chars(position, n))

\* the results a client hands to set_parse_result for position q: a failure, or
\* an item of its own making that starts at q and ends at or after the end of
\* the text
ClientResults(q) == {Err, Ok(q, Len(text), 0), Ok(q, Len(text) + 1, 0)}

\* the client calls parser.set_parse_result::<T>(q, r); set_parsed_item(item)
\* is set_parse_result(item.start_position(), Ok(item))
ClientSetParseResult ==
    /\ stack = <<>>
    /\ calls < MaxCalls
    /\ \E T \in roots : \E q \in 0..Len(text) : \E r \in ClientResults(q) :
        /\ calls' = calls + 1
        /\ memo' = set_parse_result(memo, T, q, r)
        /\ ev' = [NoEvent EXCEPT !.kind = "set_parse_result", !.T = T, !.start = q,
                                 !.res = r, !.client = TRUE]
    /\ UNCHANGED <<roots, text, position, level, expected, stack, ret, invoked, hist, peeked>>

NextPublic ==
    \/ Next
    \/ ClientReadChar
    \/ ClientConsumeBytes
    \/ ClientConsumeChars
    \/ ClientSetParseResult

InitPublic == Init /\ roots \in {{"Maybe<Char_a>"}, {"(AnyChar,Char_a,Char_b)"}}

SpecPublic == InitPublic /\ [][NextPublic]_vars

\* the client constructs a new parser on the same text: Parser::new
NewParser ==
    /\ stack = <<>>
    /\ calls > 0
    /\ memo # [T \in Components |-> EmptyMap]
    /\ position' = 0
    /\ level' = 0
    /\ expected' = NoExpected
    /\ memo' = [T \in Components |-> EmptyMap]
    /\ ret' = Err
    /\ invoked' = [T \in Components |-> [p \in 0..(Len(text) + 1) |-> 0]]
    /\ ev' = [NoEvent EXCEPT !.kind = "new", !.client = TRUE]
    /\ UNCHANGED <<roots, text, stack, calls, hist, peeked>>

\* a client that parses the same text with more than one parser
NextFresh == Next \/ NewParser

InitFresh ==
    Init /\ roots \in {{"List", "Box<Snoc>"}, {"Value", "Eos"}, {"Items"}}

SpecFresh == InitFresh /\ [][NextFresh]_vars

\* a client that also uses parse_without_memo
NextWM ==
    \/ Next
    \/ ClientParseWithoutMemo
    \/ ClientPeekWithoutMemo
    \/ PeekWithoutMemoReturn

SpecWM == Init /\ [][NextWM]_vars

(***************************************************************************)
(* Properties.                                                             *)
(***************************************************************************)

\* a call of Parser::parse has just returned, from the memo or from T::parse
Returned == ev.kind \in {"hit", "return"} /\ ev.fn = "parse"

\* C1: when parse<T>() called at cursor p returns, the cursor is the end of the
\* returned value on success and p on failure, on the memo-hit path and on the
\* memo-miss path alike.
C1_CursorOnReturn ==
    Returned =>
        /\ ev.res.ok => position = ev.res.end
        /\ ~ev.res.ok => position = ev.start

\* a memo-miss parse failed after its first sub-component had consumed input
C1_Witness ==
    /\ ev.kind = "return" /\ ev.fn = "parse"
    /\ ~ev.res.ok
    /\ ev.log # <<>>
    /\ ev.log[1].res.ok /\ ev.log[1].res.end > ev.start
    /\ position = ev.start

\* C2: two parse<T>() calls of the client from the same cursor return equal
\* outcomes and leave the cursor in the same place; the second one is a memo hit
\* that moves the cursor to the end of a memoized success and leaves it alone on
\* a memoized failure.
C2_ParseTwice ==
    /\ \A o1 \in hist : \A o2 \in hist :
          (o1.T = o2.T /\ o1.start = o2.start) => o1 = o2
    /\ (ev.client /\ ev.again /\ ev.fn = "parse" /\ ev.kind \in {"hit", "enter", "return"}) =>
          /\ ev.kind = "hit"
          /\ position = IF ev.res.ok THEN ev.res.end ELSE ev.start

\* the client repeated a parse that had succeeded and consumed input
C2_Witness ==
    /\ ev.kind = "hit" /\ ev.client /\ ev.again
    /\ ev.res.ok /\ ev.res.end > ev.start
    /\ position = ev.res.end

\* a parse<T>() call was just made at p while T::parse is running for (T, p)
Reentry ==
    /\ ev.kind \in {"hit", "enter"}
    /\ \E i \in 1..Len(stack) :
          /\ stack[i].fn # "peek"
          /\ stack[i].T = ev.T
          /\ stack[i].start = ev.start
          /\ ev.kind = "enter" => i < Len(stack)

\* C3: a parse<T>() made at p while an outer parse<T>() at p is in progress finds
\* the sentinel and fails without moving the cursor, and the left-recursive
\* parses (Expr, AddExpr) started by the client always come to an end.
C3_LeftRecursionFails ==
    /\ [](Reentry => (ev.kind = "hit" /\ ~ev.res.ok /\ position = ev.start))
    /\ ((stack # <<>>) ~> (stack = <<>>))

\* Expr re-entered itself at the same position through Box<AddExpr>
C3_Witness == Reentry /\ ev.kind = "hit" /\ ev.T = "Expr" /\ Len(stack) >= 3

\* how often the code of X::parse was started at p: by Parser::parse::<X>, or by
\* Box<X>::parse, which calls X::parse itself
ImplCount(X, p) ==
    invoked[X][p] + (IF \E B \in Components : B # X /\ Impl(B) = X
                     THEN invoked[CHOOSE B \in Components : B # X /\ Impl(B) = X][p]
                     ELSE 0)

\* C4 as stated: the parser implementation of every component runs at most once
\* for each starting position.
C4_ImplOnce ==
    \A X \in Components : \A p \in 0..Len(text) : ImplCount(X, p) <= 1

\* C4, amended: Parser::parse invokes T::parse at most once for each memo key
\* (T, starting position); every later parse or peek at that key is answered
\* from the memo.
C4_DispatchOnce ==
    \A T \in Components : \A p \in 0..Len(text) : invoked[T][p] <= 1

\* the client asked again for a component that had been parsed at this position
C4_Witness ==
    /\ ev.kind = "hit" /\ ev.client /\ ev.again
    /\ invoked[ev.T][ev.start] = 1

\* T::parse of an alternative (derived enum) has just returned
AltReturned == ev.kind = "return" /\ KindOf(ev.T) = "Alt"

\* C5: an alternative parsed at p tries its branches in declaration order, each
\* from p, stops at the first that succeeds and returns its value; it fails only
\* when every branch failed.  Either<Str<"if">, Str<"ifdef">> on "ifdef" consumes
\* "if" only.
C5_OrderedChoice ==
    /\ AltReturned =>
          LET cs == ArgsOf(ev.T)
              l  == ev.log
          IN  /\ Len(l) \in 1..Len(cs)
              /\ \A i \in 1..Len(l) : l[i].T = cs[i] /\ l[i].at = ev.start
              /\ \A i \in 1..(Len(l) - 1) : ~l[i].res.ok
              /\ ev.res.ok <=> l[Len(l)].res.ok
              /\ ev.res.ok =>
                    /\ ev.res.tag = Len(l)
                    /\ ev.res.start = l[Len(l)].res.start
                    /\ ev.res.end = l[Len(l)].res.end
                    /\ position = ev.res.end
              /\ ~ev.res.ok => Len(l) = Len(cs)
    /\ (AltReturned /\ ev.T = "Either<Str_if,Str_ifdef>" /\ ev.start = 0
            /\ text = <<"i", "f", "d", "e", "f">>) =>
          (ev.res.ok /\ ev.res.tag = 1 /\ position = 2)

\* Either<Str<"if">, Str<"ifdef">> returned on "ifdef"
C5_Witness ==
    /\ AltReturned /\ ev.T = "Either<Str_if,Str_ifdef>" /\ ev.start = 0
    /\ text = <<"i", "f", "d", "e", "f">>
    /\ position = 2

\* T::parse of a tuple or derived struct has just returned
SeqReturned == ev.kind = "return" /\ KindOf(ev.T) = "Seq"

\* C6: a sequence parses its elements in order, each from where the previous one
\* ended; it succeeds when all did, and when one fails the sequence fails with
\* the cursor back at the cursor of its entry.
C6_SequenceAllOrNothing ==
    SeqReturned =>
        LET cs == ArgsOf(ev.T)
            l  == ev.log
        IN  /\ Len(l) \in 1..Len(cs)
            /\ \A i \in 1..Len(l) : l[i].T = cs[i]
            /\ l[1].at = ev.start
            /\ \A i \in 1..(Len(l) - 1) : l[i].res.ok /\ l[i + 1].at = l[i].res.end
            /\ ev.res.ok <=> (Len(l) = Len(cs) /\ l[Len(l)].res.ok)
            /\ ev.res.ok => position = l[Len(l)].res.end
            /\ ~ev.res.ok => position = ev.start

\* a sequence failed at its third element after the first two consumed input
C6_Witness ==
    /\ SeqReturned /\ ~ev.res.ok
    /\ Len(ev.log) = 3
    /\ ev.log[2].res.end > ev.log[1].res.end
    /\ ev.log[1].res.end > ev.start
    /\ position = ev.start

\* a component with a name has just been entered: update_expected ran with the
\* expected record ev.prev, the cursor ev.start and the name-depth ev.depth
NamedEntered == ev.kind = "enter" /\ HasName(ev.T)

\* C7: when a named component is entered at the stored expected position, a
\* name-depth below the stored depth replaces the record by (p, d, {T}), so that
\* the outer name is preferred, and a name-depth above it leaves the record as
\* it is.
C7_TieRule ==
    (NamedEntered /\ ev.prev.position = ev.start) =>
        /\ ev.depth < ev.prev.level =>
              expected = [position |-> ev.start, level |-> ev.depth, items |-> <<ev.T>>]
        /\ ev.depth > ev.prev.level => expected = ev.prev

\* the positions at which a named component was entered
NamedPositions ==
    {p \in 0..Len(text) : \E T \in Components : HasName(T) /\ invoked[T][p] > 0}

Greatest(S) == CHOOSE x \in S : \A y \in S : y <= x

\* C8: a named component entered beyond the stored expected position replaces
\* the record by (p, d, {T}), discarding the items recorded before; so the
\* expected position is the greatest cursor at which a named component was
\* entered.
C8_FurthestPosition ==
    /\ (NamedEntered /\ ev.prev.position < ev.start) =>
          expected = [position |-> ev.start, level |-> ev.depth, items |-> <<ev.T>>]
    /\ NamedPositions # {} => expected.position = Greatest(NamedPositions)
    /\ NamedPositions = {} => expected = NoExpected

\* a named component was entered beyond the position of recorded items
C8_Witness ==
    /\ NamedEntered /\ ev.prev.position < ev.start
    /\ ev.prev.items # <<>>
    /\ expected.items = <<ev.T>>

\* C9: a named component entered at the stored expected position with the
\* stored name-depth is added to the items; position, depth and the items
\* recorded before are kept, and a component that is among them already gets no
\* second entry.
C9_AppendRule ==
    /\ (NamedEntered /\ ev.prev.position = ev.start /\ ev.prev.level = ev.depth) =>
          /\ expected.position = ev.prev.position
          /\ expected.level = ev.prev.level
          /\ SubSeq(expected.items, 1, Len(ev.prev.items)) = ev.prev.items
          /\ SeqRange(expected.items) = SeqRange(ev.prev.items) \cup {ev.T}
    /\ Cardinality(SeqRange(expected.items)) = Len(expected.items)

\* a named component was entered again where it is among the expected items
C9_Witness ==
    /\ NamedEntered /\ ev.prev.position = ev.start /\ ev.prev.level = ev.depth
    /\ ev.T \in SeqRange(ev.prev.items)
    /\ expected = ev.prev

\* C10: every expected item is a component with a name that was entered at the
\* expected position; entering, leaving or finding in the memo a component
\* without a name changes neither the expected record nor the name-depth.
C10_OnlyNamed ==
    /\ \A T \in SeqRange(expected.items) :
          HasName(T) /\ invoked[T][expected.position] > 0
    /\ (ev.kind \in {"enter", "return", "hit"} /\ ~HasName(ev.T)) =>
          (expected = ev.prev /\ level = ev.depth)

\* the unnamed delimiter Char<'b', false> was entered with a name recorded
C10_Witness ==
    /\ ev.kind = "enter" /\ ev.T = "Char_b_unnamed"
    /\ expected.items # <<>>
    /\ expected = ev.prev

\* C11: the expected position never decreases; a named component entered
\* before the stored expected position leaves position, depth and items as they
\* are, and one entered at the stored position leaves the position as it is.
C11_PositionMonotone ==
    /\ [][expected'.position >= expected.position]_vars
    /\ []((NamedEntered /\ ev.start < ev.prev.position) => expected = ev.prev)
    /\ []((NamedEntered /\ ev.start = ev.prev.position) =>
              expected.position = ev.prev.position)

\* a named component was entered before the position of recorded items
C11_Witness ==
    /\ NamedEntered /\ ev.start < ev.prev.position
    /\ ev.prev.items # <<>>
    /\ expected = ev.prev

\* the body of a While<T> is running
WhileRunning == \E i \in 1..Len(stack) : stack[i].fn # "peek" /\ KindOf(stack[i].T) = "While"

\* T::parse of a While<T> has just returned
WhileReturned == ev.kind = "return" /\ KindOf(ev.T) = "While"

\* C12: While<T> terminates and succeeds for every T, also for a T that
\* succeeds without consuming input, such as While<Empty>: a While<T> that is
\* running always comes to return a success.
C12_WhileTerminates == WhileRunning ~> (WhileReturned /\ ev.res.ok)

\* where the run of T's that starts at p ends, going by the results of T that
\* Parser::parse recorded in the memo
RECURSIVE RunEnd(_, _)
RunEnd(T, p) ==
    IF has_parse_result(memo, T, p) /\ get_parse_result(memo, T, p).ok
          /\ get_parse_result(memo, T, p).end > p
    THEN RunEnd(T, get_parse_result(memo, T, p).end)
    ELSE p

\* C13: While<T> parsed at p returns the span from p to the end e of the
\* longest run of successful T's from p and leaves the cursor at e; the attempt
\* of T at e failed and adds nothing to the span, whatever it had consumed.
C13_WhileSpan ==
    WhileReturned =>
        LET T == ArgsOf(ev.T)[1]
            e == RunEnd(T, ev.start)
        IN  /\ ev.res = Ok(ev.start, e, 0)
            /\ position = e
            /\ has_parse_result(memo, T, e)
            /\ ~get_parse_result(memo, T, e).ok

\* on "bab" the second pair failed after its 'b' was read at 2
C13_Witness ==
    /\ WhileReturned /\ ev.T = "While<Pair>" /\ ev.start = 0
    /\ text = <<"b", "a", "b">>
    /\ has_parse_result(memo, "Char_b", 2) /\ get_parse_result(memo, "Char_b", 2).ok
    /\ ev.res = Ok(0, 2, 0)
    /\ position = 2

\* T::parse of a Maybe<T> has just returned
MaybeReturned == ev.kind = "return" /\ KindOf(ev.T) = "Maybe"

\* the T of the Maybe<T> = Maybe(Either<T, Empty>) that ev is about
MaybeItem == ArgsOf(ArgsOf(ev.T)[1])[1]

\* C14: parse<Maybe<T>>() at p succeeds always; it holds a T (variant A of its
\* Either) exactly when T succeeded at p, and then span end and cursor are the
\* end of T; otherwise it holds Empty with the span [p, p) and the cursor is p.
C14_MaybeSucceeds ==
    /\ (ev.kind \in {"return", "hit"} /\ KindOf(ev.T) = "Maybe") => ev.res.ok
    /\ MaybeReturned =>
          /\ has_parse_result(memo, MaybeItem, ev.start)
          /\ (ev.res.tag = 1) <=> get_parse_result(memo, MaybeItem, ev.start).ok
          /\ ev.res.tag = 1 =>
                /\ ev.res.start = ev.start
                /\ ev.res.end = get_parse_result(memo, MaybeItem, ev.start).end
                /\ position = ev.res.end
          /\ ev.res.tag # 1 =>
                /\ ev.res = Ok(ev.start, ev.start, 2)
                /\ position = ev.start

\* Maybe<T> returned Empty before the end of the text, where T had failed
C14_Witness ==
    /\ MaybeReturned /\ ev.res.ok /\ ev.res.tag = 2
    /\ ~get_parse_result(memo, MaybeItem, ev.start).ok
    /\ peek_char(ev.start) # ""
    /\ position = ev.start

\* T::parse of a Not<T> has just returned
NotReturned == ev.kind = "return" /\ KindOf(ev.T) = "Not"

\* C15: parse<Not<T>>() at p succeeds exactly when T fails at p, with the empty
\* span [p, p), and the cursor is p afterwards whether it succeeded or failed.
\* (Not<Char<'x'>>, AnyChar) on "y" succeeds and consumes "y"; on "x" it fails
\* with the cursor at 0.
C15_NotLookahead ==
    /\ NotReturned =>
          /\ has_parse_result(memo, ArgsOf(ev.T)[1], ev.start)
          /\ ev.res.ok <=> ~get_parse_result(memo, ArgsOf(ev.T)[1], ev.start).ok
          /\ ev.res.ok => ev.res = Ok(ev.start, ev.start, 0)
          /\ position = ev.start
    /\ (SeqReturned /\ ev.T = "(Not<Char_x>,AnyChar)" /\ ev.start = 0) =>
          /\ text = <<"y">> => (ev.res = Ok(0, 1, 0) /\ position = 1)
          /\ text = <<"x">> => (~ev.res.ok /\ position = 0)

\* Not<T> failed where T had succeeded and consumed input
C15_Witness ==
    /\ NotReturned /\ ~ev.res.ok
    /\ get_parse_result(memo, ArgsOf(ev.T)[1], ev.start).ok
    /\ get_parse_result(memo, ArgsOf(ev.T)[1], ev.start).end > ev.start
    /\ position = ev.start

\* T::parse of a NonEmpty<T> has just returned
NonEmptyReturned == ev.kind = "return" /\ KindOf(ev.T) = "NonEmpty"

\* C16: NonEmpty<T> parsed at p calls parse<T>() once, at p; it fails when T
\* fails; it fails, with the cursor back at p, when T succeeds with an empty
\* span (start >= end); otherwise it succeeds with the span of T and the cursor
\* at the end of T.
C16_NonEmpty ==
    NonEmptyReturned =>
        /\ Len(ev.log) = 1
        /\ ev.log[1].T = ArgsOf(ev.T)[1]
        /\ ev.log[1].at = ev.start
        /\ LET r == ev.log[1].res
           IN  /\ ~r.ok => (~ev.res.ok /\ position = ev.start)
               /\ (r.ok /\ r.start >= r.end) => (~ev.res.ok /\ position = ev.start)
               /\ (r.ok /\ r.start < r.end) =>
                     (ev.res = Ok(r.start, r.end, 0) /\ position = r.end)

\* NonEmpty<T> failed although T had succeeded, on an empty span
C16_Witness ==
    /\ NonEmptyReturned /\ ~ev.res.ok
    /\ Len(ev.log) = 1
    /\ ev.log[1].res.ok /\ ev.log[1].res.start = ev.log[1].res.end
    /\ position = ev.start

\* C17: Parser::is_eos() is true exactly when the cursor is the length of the
\* text, in parse.rs and in lib.rs; Eos succeeds exactly there, with the empty
\* span at the cursor, and leaves the cursor where it is.
C17_EndOfInput ==
    /\ is_eos(position) <=> position = Len(text)
    /\ lib_is_eos(position) <=> position = Len(text)
    /\ (ev.kind = "return" /\ ev.T = "Eos") =>
          /\ ev.res.ok <=> ev.start = Len(text)
          /\ ev.res.ok => ev.res = Ok(ev.start, ev.start, 0)
          /\ position = ev.start

\* T::parse of Items<Item, Delimiter> has just returned
ItemsReturned == ev.kind = "return" /\ ev.T = "Items"

\* going by the results Parser::parse recorded in the memo: from the end q of an
\* Item, how the list goes on.  trailing: a Delimiter parsed and the Item after
\* it failed; end: the end of the last Item; count: the Items from q on.
RECURSIVE ItemsRun(_, _, _)
ItemsRun(item, delim, q) ==
    IF has_parse_result(memo, delim, q) /\ get_parse_result(memo, delim, q).ok
    THEN LET d == get_parse_result(memo, delim, q).end
         IN  IF has_parse_result(memo, item, d) /\ get_parse_result(memo, item, d).ok
                   /\ get_parse_result(memo, item, d).end > q
             THEN LET rest == ItemsRun(item, delim, get_parse_result(memo, item, d).end)
                  IN  [rest EXCEPT !.count = @ + 1]
             ELSE [trailing |-> TRUE, end |-> q, count |-> 0]
    ELSE [trailing |-> FALSE, end |-> q, count |-> 0]

\* C18: Items<Item, Delimiter> parsed at p, where an Item parses: when a
\* Delimiter parses and the Item after it fails, the construct fails and the
\* cursor is back at p; when the list ends before something that is no
\* Delimiter, the construct succeeds with the cursor at the end of the last Item
\* and all the Items are returned.
C18_NoTrailingDelimiter ==
    /\ (ItemsReturned /\ get_parse_result(memo, "Char_a", ev.start).ok) =>
          LET run == ItemsRun("Char_a", "Char_b_unnamed",
                              get_parse_result(memo, "Char_a", ev.start).end)
          IN  /\ run.trailing => (~ev.res.ok /\ position = ev.start)
              /\ ~run.trailing =>
                    (ev.res.ok /\ ev.res.start = ev.start /\ ev.res.end = run.end
                        /\ position = run.end)
    /\ (ev.kind = "return" /\ ev.T = "NonEmptyItems" /\ ev.res.ok) =>
          ev.res.tag = 1 + ItemsRun("Char_a", "Char_b_unnamed",
                                   get_parse_result(memo, "Char_a", ev.start).end).count

\* Parser::peek has just returned
PeekReturned == ev.kind = "peek_return"

\* the client has just called parse<T>() where it had called peek<T>() before
ParseAfterPeek ==
    /\ ev.client /\ ev.fn = "parse" /\ ev.kind \in {"hit", "enter"}
    /\ Called(peeked, ev.T, ev.start)

\* C19: peek<T>() at p leaves the cursor at p on success and on failure, returns
\* what parse<T>() returns at p, and records it in the memo: a parse<T>() at p
\* after it is a memo hit with the same outcome.
C19_Peek ==
    /\ PeekReturned =>
          /\ position = ev.start
          /\ has_parse_result(memo, ev.T, ev.start)
          /\ get_parse_result(memo, ev.T, ev.start) = ev.res
    /\ \A o \in peeked :
          /\ o.cursor = o.start
          /\ \A q \in hist \cup peeked : (q.T = o.T /\ q.start = o.start) => q.res = o.res
    /\ ParseAfterPeek =>
          /\ ev.kind = "hit"
          /\ \A o \in peeked : (o.T = ev.T /\ o.start = ev.start) => o.res = ev.res

\* a parse<T>() after a peek<T>() at the same cursor was answered from the memo
\* with a success that consumed input
C19_Witness ==
    /\ ParseAfterPeek /\ ev.kind = "hit" /\ ~ev.again
    /\ ev.res.ok /\ ev.res.end > ev.start
    /\ position = ev.res.end

\* C20: after any sequence of public operations of the parser the cursor is
\* within the text, 0 <= cursor <= length; consume_bytes(n) and consume_chars(n)
\* advance the cursor by n, clamped to the length of the text, and return the
\* positions before and after.
C20_CursorInBounds ==
    /\ 0 <= position /\ position <= Len(text)
    /\ ev.kind \in {"consume_bytes", "consume_chars"} =>
          /\ ev.res.start = ev.start
          /\ ev.res.end = Min(Len(text), ev.start + ev.res.tag)
          /\ position = ev.res.end

\* C21: parsed_items<T>() yields the successes of T that the memo holds, each
\* once and in strictly ascending order of start position; a position where T
\* failed or is in progress is not yielded, nor is an item of another type.
C21_ParsedItems ==
    \A T \in Components :
        LET its == parsed_items(memo, T)
        IN  /\ \A i \in 1..Len(its) :
                  /\ its[i].item.ok
                  /\ its[i].item.start = its[i].position
                  /\ has_parse_result(memo, T, its[i].position)
                  /\ get_parse_result(memo, T, its[i].position) = its[i].item
            /\ \A i \in 1..(Len(its) - 1) : its[i].item.start < its[i + 1].item.start
            /\ {its[i].position : i \in 1..Len(its)} =
                  {p \in DOMAIN memo[T] : get_parse_result(memo, T, p).ok}

\* a component with two items to yield, a failure, and a parse in progress
C21_Witness ==
    /\ stack # <<>>
    /\ \E T \in Components :
          /\ Len(parsed_items(memo, T)) = 2
          /\ \E p \in DOMAIN memo[T] : ~get_parse_result(memo, T, p).ok

\* C22: memoization does not change results: the outcome the memo holds for
\* (T, p), and the one parse<T>() returns at p after other parsing, is the
\* outcome of T at p on a parser with an empty memo over the same text.  So all
\* the outcomes of (T, p) that the client got from its parsers on one text
\* agree, and any parser's memo agrees with them.
C22_MemoTransparent ==
    \A o \in hist :
        /\ \A q \in hist : (q.T = o.T /\ q.start = o.start) => q.res = o.res
        /\ (stack = <<>> /\ has_parse_result(memo, o.T, o.start)) =>
              get_parse_result(memo, o.T, o.start) = o.res

\* the newlines among the first offset characters of txt
NewlinesBefore(txt, offset) == {i \in 1..offset : txt[i] = NL}

\* the 1-based line and column of offset in txt
LineColumn(txt, offset) ==
    <<1 + Cardinality(NewlinesBefore(txt, offset)),
      1 + offset - Greatest({0} \cup NewlinesBefore(txt, offset))>>

\* C23: line and column of a position are 1-based: both start at 1, a newline
\* before the position adds a line and starts the column again at 1, any other
\* character adds a column; the builder's line_and_column and
\* Position::line_and_column both return this pair.  Offset 6 of "[1, 2,]" is
\* line 1, column 7.
C23_LineAndColumn ==
    /\ \A offset \in 0..Len(text) :
          /\ line_and_column(text, offset) = LineColumn(text, offset)
          /\ Position_line_and_column(text, offset) = LineColumn(text, offset)
    /\ line_and_column(<<"[", "1", ",", " ", "2", ",", "]">>, 6) = <<1, 7>>
    /\ Position_line_and_column(<<"[", "1", ",", " ", "2", ",", "]">>, 6) = <<1, 7>>

\* a parse call of the client has just failed
ClientFailed ==
    stack = <<>> /\ ev.client /\ ev.kind \in {"return", "hit"} /\ ~ev.res.ok

\* C27: build() returns a message for every text, the empty text and a text
\* that ends in a newline included, and every expected position the parser
\* reaches, a failure at the end of the input included: no slice and no
\* expect("unreachable") of try_build panics.
C27_BuildTotal == ClientFailed => ~try_build(text, expected).panics

\* the entries of the memo other than the one of (T, p)
MemoExcept(m, T, p) ==
    [X \in Components |->
        [q \in (DOMAIN m[X]) \ (IF X = T THEN {p} ELSE {}) |-> m[X][q]]]

\* C24: when a parse<T>() that missed the memo at p returns, memo[T, p] holds
\* the outcome it returned: the sentinel written at entry is overwritten; the
\* entry step and the return step of the call write no memo key but (T, p).
C24_FinalOutcomeStored ==
    /\ []((ev.kind = "return" /\ ev.fn = "parse") =>
              /\ has_parse_result(memo, ev.T, ev.start)
              /\ get_parse_result(memo, ev.T, ev.start) = ev.res)
    /\ []((ev.kind = "enter" /\ ev.fn = "parse") =>
              /\ has_parse_result(memo, ev.T, ev.start)
              /\ ~get_parse_result(memo, ev.T, ev.start).ok)
    /\ [][(ev'.kind \in {"enter", "return"} /\ ev'.fn = "parse") =>
              MemoExcept(memo', ev'.T, ev'.start) = MemoExcept(memo, ev'.T, ev'.start)]_vars

\* a parse returned a success where the sentinel stood, with another position
\* of the same component in the memo
C24_Witness ==
    /\ ev.kind = "return" /\ ev.fn = "parse" /\ ev.res.ok
    /\ get_parse_result(memo, ev.T, ev.start) = ev.res
    /\ \E q \in DOMAIN memo[ev.T] : q # ev.start

\* C25: a parse<T>() that finds an entry in memo[T, p] leaves the memo, the
\* expected record and the name-depth as they are and does not invoke T::parse,
\* also when T has a name.
C25_HitChangesCursorOnly ==
    [][ev'.kind = "hit" =>
          /\ memo' = memo
          /\ expected' = expected
          /\ level' = level
          /\ invoked' = invoked]_vars

\* a named component was found in the memo where update_expected would have
\* changed the record
C25_Witness ==
    /\ ev.kind = "hit" /\ HasName(ev.T)
    /\ update_expected(ev.prev, ev.T, ev.start, ev.depth) # ev.prev
    /\ expected = ev.prev
    /\ level = ev.depth

\* how many of the Parse::parse bodies in progress belong to a named component
NamedDepth(stk) ==
    Cardinality({i \in 1..Len(stk) : stk[i].fn # "peek" /\ HasName(stk[i].T)})

\* C26: the name-depth is balanced: it never goes below 0, it is 0 when no
\* parse is in progress, when parse<T>() returns it is what it was at entry, and
\* while T::parse runs it is the entry value plus 1 for a named T and the entry
\* value for an unnamed T; so it is the number of named components in progress.
C26_NameDepthBalanced ==
    /\ level >= 0
    /\ stack = <<>> => level = 0
    /\ level = NamedDepth(stack)
    /\ ev.kind = "enter" => level = ev.depth + (IF HasName(ev.T) THEN 1 ELSE 0)
    /\ ev.kind = "hit" => level = ev.depth
    /\ ev.kind = "return" => level = NamedDepth(stack)

\* a named component failed two named components deep
C26_Witness ==
    /\ ev.kind = "return" /\ HasName(ev.T) /\ ~ev.res.ok
    /\ ev.depth = 3
    /\ level = 2

\* C28: every success the library components store in the memo under (T, p)
\* starts at p and ends at an e with p <= e <= length of the text, so the cursor
\* of entry, which is the key of parse, is the start position of the item, which
\* is the key of set_parsed_item.
C28_MemoKeyIsStart ==
    \A T \in Components : \A p \in DOMAIN memo[T] :
        get_parse_result(memo, T, p).ok =>
            /\ get_parse_result(memo, T, p).start = p
            /\ p <= get_parse_result(memo, T, p).end
            /\ get_parse_result(memo, T, p).end <= Len(text)

\* the memo holds a tuple of two fields that consumed input, and an empty item
\* at the end of the text
C28_Witness ==
    /\ \E T \in Components : \E p \in DOMAIN memo[T] :
          /\ KindOf(T) = "Seq" /\ Len(ArgsOf(T)) = 2
          /\ get_parse_result(memo, T, p).ok
          /\ get_parse_result(memo, T, p).end = p + 2
    /\ \E T \in Components :
          /\ has_parse_result(memo, T, Len(text))
          /\ get_parse_result(memo, T, Len(text)) = Ok(Len(text), Len(text), 0)

\* C29: parse_without_memo<T>() at p does not answer from memo[T, p]: T::parse
\* is invoked also where an outcome is memoized; it updates the expected record
\* and the name-depth as parse<T>() does, writes its outcome over memo[T, p] and
\* puts the cursor back at p on failure; peek_without_memo<T>() puts the cursor
\* back at p on success as well.
C29_WithoutMemo ==
    /\ (ev.fn = "parse_without_memo" /\ ev.kind \in {"hit", "enter"}) =>
          /\ ev.kind = "enter"
          /\ invoked[ev.T][ev.start] >= 1
          /\ expected = EnterExpected(ev.prev, ev.T, ev.start, ev.depth)
          /\ level = ev.depth + (IF HasName(ev.T) THEN 1 ELSE 0)
    /\ (ev.fn = "parse_without_memo" /\ ev.kind = "return") =>
          /\ has_parse_result(memo, ev.T, ev.start)
          /\ get_parse_result(memo, ev.T, ev.start) = ev.res
          /\ level = ev.depth - (IF HasName(ev.T) THEN 1 ELSE 0)
          /\ ~ev.res.ok => position = ev.start
    /\ (ev.fn = "peek_without_memo" /\ ev.kind = "peek_return") => position = ev.start

\* parse_without_memo invoked T::parse where the memo held a success that had
\* consumed input
C29_Witness ==
    /\ ev.fn = "parse_without_memo" /\ ev.kind = "enter"
    /\ get_parse_result(memo, ev.T, ev.start).ok
    /\ get_parse_result(memo, ev.T, ev.start).end > ev.start
    /\ invoked[ev.T][ev.start] = 2

====
